---- MODULE Spec2Model ----
(***************************************************************************)
(* News portal: the output normalizer (ensure_json), the pipeline driver   *)
(* and fallback assembler (NewsPortalCrew.run_pipeline and                 *)
(* _minimal_final_fallback) and the dashboard's Run callback (run_agents). *)
(*                                                                         *)
(* A text is a sequence of symbols: the JSON punctuation characters, the   *)
(* double quote, digits, the word null and letter groups (words).  Python  *)
(* values (None, numbers, strings, lists, dicts) are records of one shape  *)
(* so that any two of them can be compared.                                *)
(***************************************************************************)
EXTENDS Integers, Sequences, FiniteSets, TLC

VARIABLES
    text,        \* normalizer: the string handed to ensure_json
    data,        \* normalizer: what ensure_json returned
    npc,         \* normalizer: "in" before the call, "out" after it
    pc,          \* run_pipeline: position in the function body
    artifacts,   \* run_pipeline: result.tasks_output of the engine
    merged,      \* run_pipeline: the local mapping 'merged'
    exc,         \* run_pipeline: the exception that left the function, or ""
    file,        \* ./output/cancer_health_care_result.json (PyNone: not written)
    results,     \* st.session_state["results"]
    error,       \* st.session_state["error"]
    active_menu, \* st.session_state["active_menu"]
    running,     \* st.session_state["running"]
    rpc,         \* run_agents: position in the callback
    runs,        \* number of Run clicks so far
    calls,       \* number of run_pipeline invocations so far
    last_call    \* outcome of the latest run_pipeline invocation

vars == <<text, data, npc, pc, artifacts, merged, exc, file,
          results, error, active_menu, running, rpc, runs, calls, last_call>>

normVars == <<text, data, npc>>
pipeVars == <<pc, artifacts, merged, exc, file>>
dashVars == <<results, error, active_menu, running, rpc, runs, calls, last_call>>

(***************************************************************************)
(* Bounds of the model.                                                    *)
(***************************************************************************)
MaxLen == 4        \* longest symbol string enumerated for ensure_json
MaxOutputs == 12   \* most task outputs the engine returns in one run
MaxVaried == 1     \* most outputs of one run that deviate from the well-formed one
MaxRuns == 2       \* most Run clicks in one dashboard session
MaxDashOutputs == 1 \* most task outputs per run in the dashboard specification

(***************************************************************************)
(* Python values.                                                          *)
(***************************************************************************)
PyNone == [t |-> "none", a |-> "", items |-> <<>>, fields |-> <<>>]
PyNum(n) == [t |-> "num", a |-> n, items |-> <<>>, fields |-> <<>>]
PyStr(s) == [t |-> "str", a |-> s, items |-> <<>>, fields |-> <<>>]
PyBool(b) == [t |-> "bool", a |-> IF b THEN "True" ELSE "False", items |-> <<>>, fields |-> <<>>]
PyList(xs) == [t |-> "list", a |-> "", items |-> xs, fields |-> <<>>]
PyDict(f) == [t |-> "dict", a |-> "", items |-> <<>>, fields |-> f]

IsDict(v) == v.t = "dict"
IsList(v) == v.t = "list"

\* bool(v)
Truthy(v) ==
    CASE v.t = "none" -> FALSE
      [] v.t = "bool" -> v.a = "True"
      [] v.t = "num" -> v.a # "0"
      [] v.t = "str" -> v.a # ""
      [] v.t = "list" -> v.items # <<>>
      [] v.t = "dict" -> DOMAIN v.fields # {}

\* d.get(k, default) on a dict d
DictGet(d, k, default) == IF k \in DOMAIN d.fields THEN d.fields[k] ELSE default

\* d[k] = v on a dict d
DictSet(d, k, v) == PyDict((k :> v) @@ d.fields)

(***************************************************************************)
(* Strings as symbol sequences.                                            *)
(***************************************************************************)
Q == "\""
Digits == {"0", "1"}

RECURSIVE Join(_)
Join(s) == IF s = <<>> THEN "" ELSE Head(s) \o Join(Tail(s))

\* s.find(c): 0-based index of the first c, -1 when there is none
Find(s, c) ==
    IF \E i \in 1..Len(s) : s[i] = c
    THEN (CHOOSE i \in 1..Len(s) : s[i] = c /\ \A j \in 1..(i-1) : s[j] # c) - 1
    ELSE -1

\* s.rfind(c): 0-based index of the last c, -1 when there is none
RFind(s, c) ==
    IF \E i \in 1..Len(s) : s[i] = c
    THEN (CHOOSE i \in 1..Len(s) : s[i] = c /\ \A j \in (i+1)..Len(s) : s[j] # c) - 1
    ELSE -1

\* s[lo:hi] for 0 <= lo <= hi <= len(s)
Slice(s, lo, hi) == SubSeq(s, lo + 1, hi)

(***************************************************************************)
(* json.loads on a symbol sequence.  A parse step yields ok, the value and *)
(* the 1-based position of the next unread symbol.                         *)
(***************************************************************************)
Fail == [ok |-> FALSE, val |-> PyNone, pos |-> 0]
Ok(v, p) == [ok |-> TRUE, val |-> v, pos |-> p]

\* a string literal opening at position i
ParseString(s, i) ==
    IF \E j \in (i+1)..Len(s) : s[j] = Q
    THEN LET j == CHOOSE j \in (i+1)..Len(s) :
                      s[j] = Q /\ \A k \in (i+1)..(j-1) : s[k] # Q
         IN Ok(PyStr(Join(SubSeq(s, i + 1, j - 1))), j + 1)
    ELSE Fail

\* a number starting at position i: 0, or a run of digits not starting with 0
ParseNumber(s, i) ==
    IF s[i] = "0" THEN Ok(PyNum("0"), i + 1)
    ELSE LET j == CHOOSE j \in i..Len(s) :
                      /\ \A k \in i..j : s[k] \in Digits
                      /\ (j = Len(s) \/ s[j + 1] \notin Digits)
         IN Ok(PyNum(Join(SubSeq(s, i, j))), j + 1)

RECURSIVE ParseValue(_, _), ParseMembers(_, _, _), ParseElements(_, _, _)

ParseValue(s, i) ==
    IF i > Len(s) THEN Fail
    ELSE CASE s[i] = "{" ->
                IF i + 1 <= Len(s) /\ s[i + 1] = "}"
                THEN Ok(PyDict(<<>>), i + 2)
                ELSE ParseMembers(s, i + 1, <<>>)
           [] s[i] = "[" ->
                IF i + 1 <= Len(s) /\ s[i + 1] = "]"
                THEN Ok(PyList(<<>>), i + 2)
                ELSE ParseElements(s, i + 1, <<>>)
           [] s[i] = Q -> ParseString(s, i)
           [] s[i] \in Digits -> ParseNumber(s, i)
           [] s[i] = "null" -> Ok(PyNone, i + 1)
           [] OTHER -> Fail

\* the members of an object from position i on; acc holds those read so far
\* (a repeated key keeps its last value)
ParseMembers(s, i, acc) ==
    IF i > Len(s) \/ s[i] # Q THEN Fail
    ELSE LET k == ParseString(s, i) IN
         IF ~k.ok \/ k.pos > Len(s) \/ s[k.pos] # ":" THEN Fail
         ELSE LET v == ParseValue(s, k.pos + 1) IN
              IF ~v.ok \/ v.pos > Len(s) THEN Fail
              ELSE LET acc2 == (k.val.a :> v.val) @@ acc IN
                   IF s[v.pos] = "}" THEN Ok(PyDict(acc2), v.pos + 1)
                   ELSE IF s[v.pos] = "," THEN ParseMembers(s, v.pos + 1, acc2)
                   ELSE Fail

\* the elements of an array from position i on; acc holds those read so far
ParseElements(s, i, acc) ==
    LET v == ParseValue(s, i) IN
    IF ~v.ok \/ v.pos > Len(s) THEN Fail
    ELSE LET acc2 == Append(acc, v.val) IN
         IF s[v.pos] = "]" THEN Ok(PyList(acc2), v.pos + 1)
         ELSE IF s[v.pos] = "," THEN ParseElements(s, v.pos + 1, acc2)
         ELSE Fail

\* json.loads(s): the whole of s is one JSON value; ok = FALSE when it raises
Loads(s) ==
    LET r == ParseValue(s, 1) IN
    IF r.ok /\ r.pos = Len(s) + 1 THEN [ok |-> TRUE, val |-> r.val]
    ELSE [ok |-> FALSE, val |-> PyNone]

(***************************************************************************)
(* ensure_json                                                             *)
(***************************************************************************)
ErrorRecord(s) ==
    PyDict([error |-> PyStr("non_json_output"), raw |-> PyStr(Join(s))])

\* ensure_json with a slip: the error record keeps the span, not the string
ensure_json_RawIsSpan(s) ==
    LET start == Find(s, "{")
        end == RFind(s, "}")
        span == IF start >= 0 /\ end >= 0 /\ end > start
                THEN Slice(s, start, end + 1) ELSE s
        first == Loads(span)
    IN IF first.ok THEN first.val
       ELSE LET second == Loads(s) IN
            IF second.ok THEN second.val ELSE ErrorRecord(span)

ensure_json(s) ==
    LET start == Find(s, "{")
        end == RFind(s, "}")
        first == IF start >= 0 /\ end >= 0 /\ end > start
                 THEN Loads(Slice(s, start, end + 1))
                 ELSE Loads(s)
    IN IF first.ok THEN first.val
       ELSE LET second == Loads(s) IN
            IF second.ok THEN second.val ELSE ErrorRecord(s)

(***************************************************************************)
(* Program constants (crew.py).                                            *)
(***************************************************************************)
TOPIC == "Cancer Health Care"

SUBTOPICS ==
    << "Cancer Research & Prevention",
       "Early Detection and Diagnosis",
       "Cancer Drug Discovery and Development",
       "Cancer Treatment Methods",
       "Precision Oncology" >>

pick_steps == <<"step_1", "step_2", "step_3", "step_4", "step_5">>
edit_steps == <<"step_6", "step_7", "step_8", "step_9", "step_10">>

ArticlesCap == 5       \* arts[:5]
BestCap == 5           \* best_articles[:5]

\* f"step_{idx+1}" for the 0-based idx = n - 1
StepKey(n) == "step_" \o ToString(n)

\* xs[:n]
Take(xs, n) == SubSeq(xs, 1, IF Len(xs) < n THEN Len(xs) ELSE n)

(***************************************************************************)
(* Results of Python expressions that may raise.                           *)
(***************************************************************************)
Ret(v) == [ok |-> TRUE, val |-> v, err |-> ""]
Raise(e) == [ok |-> FALSE, val |-> PyNone, err |-> e]
NoCall == Raise("")

\* v.get(k): None when v is a dict without k; AttributeError when v is no dict
PyGet(v, k) ==
    IF IsDict(v) THEN Ret(DictGet(v, k, PyNone)) ELSE Raise("AttributeError")

\* dict(a).  A non-empty list argument (a sequence of key/value pairs) is
\* outside the modelled inputs and has no case here.
DictOf(a) ==
    CASE a.t = "dict" -> Ret(a)
      [] a.t \in {"none", "num", "bool"} -> Raise("TypeError")
      [] a.t = "str" -> IF a.a = "" THEN Ret(PyDict(<<>>)) ELSE Raise("ValueError")
      [] a.t = "list" /\ a.items = <<>> -> Ret(PyDict(<<>>))

(***************************************************************************)
(* run_pipeline: collecting the step records (lines 211-217).              *)
(***************************************************************************)
\* getattr(t, name, ""): a task output is [raw, output], each field
\* [present, text]
GetAttr(t, name) == IF t[name].present THEN t[name].text ELSE <<>>

\* the text extraction with a slip: the secondary field is read first
ExtractText_OutputFirst(t) ==
    LET raw == GetAttr(t, "raw")
        output == GetAttr(t, "output")
    IN IF output # <<>> THEN output ELSE IF raw # <<>> THEN raw ELSE <<>>

\* getattr(t, "raw", "") or getattr(t, "output", "") or ""
ExtractText(t) ==
    LET raw == GetAttr(t, "raw")
        output == GetAttr(t, "output")
    IN IF raw # <<>> THEN raw ELSE IF output # <<>> THEN output ELSE <<>>

\* ensure_json(raw) if raw else {"empty": True}
StepData(t) ==
    LET raw == ExtractText(t)
    IN IF raw # <<>> THEN ensure_json(raw) ELSE PyDict([empty |-> PyBool(TRUE)])

\* the loop over enumerate(artifacts), from the 1-based position n on
RECURSIVE CollectFrom(_, _, _)
CollectFrom(m, arts, n) ==
    IF n > Len(arts) THEN m
    ELSE CollectFrom(DictSet(m, StepKey(n), StepData(arts[n])), arts, n + 1)

CollectSteps(arts) == CollectFrom(PyDict([topic |-> PyStr(TOPIC)]), arts, 1)

(***************************************************************************)
(* _minimal_final_fallback                                                 *)
(***************************************************************************)
\* [dict(a) for a in xs]: the copies, or the first exception
RECURSIVE CopyArticles(_)
CopyArticles(xs) ==
    IF xs = <<>> THEN Ret(<<>>)
    ELSE LET h == DictOf(Head(xs)) IN
         IF ~h.ok THEN h
         ELSE LET r == CopyArticles(Tail(xs)) IN
              IF ~r.ok THEN r ELSE Ret(<<h.val>> \o r.val)

\* the summary attachment with a slip: the index is off by one
AttachSummaries_Shifted(arts, summaries) ==
    [j \in 1..Len(arts) |->
        DictSet(arts[j], "summary",
                IF j + 1 <= Len(summaries) THEN summaries[j + 1] ELSE PyNone)]

\* a["summary"] = summaries[j] if j < len(summaries) else None, for each a
AttachSummaries(arts, summaries) ==
    [j \in 1..Len(arts) |->
        DictSet(arts[j], "summary",
                IF j <= Len(summaries) THEN summaries[j] ELSE PyNone)]

\* the body of the loop over SUBTOPICS for the 1-based position i
\* (lines 248-265): the per_subtopic entry, or the exception raised
SubtopicEntry(m, i) ==
    LET pick == IF i <= Len(pick_steps)
                THEN DictGet(m, pick_steps[i], PyDict(<<>>)) ELSE PyDict(<<>>)
        edit == IF i <= Len(edit_steps)
                THEN DictGet(m, edit_steps[i], PyDict(<<>>)) ELSE PyDict(<<>>)
        pa == PyGet(pick, "articles")
    IN IF ~pa.ok THEN pa
       ELSE LET copied == IF IsList(pa.val) THEN CopyArticles(pa.val.items)
                          ELSE Ret(<<>>) IN
            IF ~copied.ok THEN copied
            ELSE LET es == PyGet(edit, "summaries") IN
                 IF ~es.ok THEN es
                 ELSE LET summaries == IF IsList(es.val) THEN es.val.items ELSE <<>>
                          arts == AttachSummaries(copied.val, summaries)
                      IN Ret(PyDict([articles |-> PyList(Take(arts, ArticlesCap)),
                                     editorial |-> DictGet(edit, "editorial", PyNone),
                                     best_article |-> IF arts # <<>> THEN arts[1]
                                                      ELSE PyNone]))

\* the first loop (lines 247-265) from position i on; per holds the entries
\* built so far
RECURSIVE PerSubtopicFrom(_, _, _)
PerSubtopicFrom(m, i, per) ==
    IF i > Len(SUBTOPICS) THEN Ret(per)
    ELSE LET e == SubtopicEntry(m, i) IN
         IF ~e.ok THEN e
         ELSE PerSubtopicFrom(m, i + 1, DictSet(per, SUBTOPICS[i], e.val))

\* the second loop (lines 268-274) from position i on; acc holds the list
\* built so far
RECURSIVE BestArticlesFrom(_, _, _)
BestArticlesFrom(per, i, acc) ==
    IF i > Len(SUBTOPICS) THEN acc
    ELSE LET ba == DictGet(DictGet(per, SUBTOPICS[i], PyDict(<<>>)),
                           "best_article", PyNone) IN
         IF Truthy(ba)
         THEN BestArticlesFrom(per, i + 1,
                               Append(acc, DictSet(ba, "subtopic", PyStr(SUBTOPICS[i]))))
         ELSE BestArticlesFrom(per, i + 1, acc)

\* the second loop with a slip: the best article is appended without its
\* "subtopic" tag
BestArticles_Untagged(per) ==
    LET with == {i \in 1..Len(SUBTOPICS) :
                    Truthy(DictGet(DictGet(per, SUBTOPICS[i], PyDict(<<>>)),
                                   "best_article", PyNone))}
    IN [k \in 1..Cardinality(with) |->
           LET i == CHOOSE x \in with : Cardinality({y \in with : y < x}) = k - 1
           IN per.fields[SUBTOPICS[i]].fields["best_article"]]

BestArticles(per) == BestArticlesFrom(per, 1, <<>>)

SubtopicList == PyList([i \in 1..Len(SUBTOPICS) |-> PyStr(SUBTOPICS[i])])

minimal_final_fallback(m) ==
    LET per == PerSubtopicFrom(m, 1, PyDict(<<>>)) IN
    IF ~per.ok THEN per
    ELSE Ret(PyDict([topic |-> PyStr(TOPIC),
                     subtopics |-> SubtopicList,
                     per_subtopic |-> per.val,
                     home |-> PyDict([best_articles |->
                                          PyList(Take(BestArticles(per.val), BestCap)),
                                      main_editorial |-> PyNone])]))

(***************************************************************************)
(* run_pipeline: choosing "final" (lines 221-225) and saving (228-232).    *)
(***************************************************************************)
\* the selection with a slip: step_11 is asked before step_12
SelectFinal_ElevenFirst(m) ==
    LET f11 == PyGet(DictGet(m, "step_11", PyDict(<<>>)), "final") IN
    IF ~f11.ok THEN f11
    ELSE IF Truthy(f11.val) THEN f11
    ELSE LET f12 == PyGet(DictGet(m, "step_12", PyDict(<<>>)), "final") IN
         IF ~f12.ok THEN f12
         ELSE IF Truthy(f12.val) THEN f12
         ELSE minimal_final_fallback(m)

\* merged.get("step_12", {}).get("final") or merged.get("step_11", {}).get("final")
\*   or self._minimal_final_fallback(merged)
SelectFinal(m) ==
    LET f12 == PyGet(DictGet(m, "step_12", PyDict(<<>>)), "final") IN
    IF ~f12.ok THEN f12
    ELSE IF Truthy(f12.val) THEN f12
    ELSE LET f11 == PyGet(DictGet(m, "step_11", PyDict(<<>>)), "final") IN
         IF ~f11.ok THEN f11
         ELSE IF Truthy(f11.val) THEN f11
         ELSE minimal_final_fallback(m)

\* write outcomes: "" for a write that succeeds, else str(e)
WriteErrors == {"Permission denied", "Is a directory"}

\* merged after the try/except around write_text
AfterWrite(m, w) == IF w = "" THEN m ELSE DictSet(m, "file_write_error", PyStr(w))

(***************************************************************************)
(* What the orchestration engine returns.  Texts are written symbol by     *)
(* symbol; Str, Obj and Arr build the JSON text of a string, an object and *)
(* an array.                                                               *)
(***************************************************************************)
Str(w) == <<Q, w, Q>>

RECURSIVE Sep(_)
Sep(parts) ==
    IF parts = <<>> THEN <<>>
    ELSE IF Len(parts) = 1 THEN parts[1]
    ELSE parts[1] \o <<",">> \o Sep(Tail(parts))

Member(k, v) == Str(k) \o <<":">> \o v
Obj(members) == <<"{">> \o Sep(members) \o <<"}">>
Arr(elements) == <<"[">> \o Sep(elements) \o <<"]">>

ArticleText(title) == Obj(<<Member("title", Str(title))>>)
PickText == Obj(<<Member("articles", Arr(<<ArticleText("A"), ArticleText("B")>>))>>)
PickSixText ==
    Obj(<<Member("articles",
                 Arr(<<ArticleText("A"), ArticleText("B"), ArticleText("C"),
                       ArticleText("D"), ArticleText("E"), ArticleText("F")>>))>>)
EditText == Obj(<<Member("summaries", Arr(<<Str("s1")>>)),
                  Member("editorial", Str("ed"))>>)
EditTwoText == Obj(<<Member("summaries", Arr(<<Str("s1"), Str("s2")>>))>>)
ChiefText == Obj(<<Member("final", Obj(<<Member("home", Str("h"))>>))>>)
WrappedFinalText == <<"a">> \o Obj(<<Member("final", Obj(<<Member("home", Str("q"))>>))>>)
                    \o <<"a">>
FalsyFinalText == Obj(<<Member("final", Obj(<<>>))>>)
QAText == Obj(<<Member("status", Str("pass"))>>)
ListText == Arr(<<<<"1">>>>)
ProseText == <<"a">>
BadArticleText == Obj(<<Member("articles", Arr(<<<<"1">>>>))>>)
NonListText == Obj(<<Member("articles", <<"1">>), Member("summaries", <<"1">>)>>)

Absent == [present |-> FALSE, text |-> <<>>]
Present(txt) == [present |-> TRUE, text |-> txt]
TaskOutput(raw, output) == [raw |-> raw, output |-> output]

\* the output of a task that did what its configuration asks: the five pick
\* tasks, the five edit tasks, the chief editor, then the QA tasks
Baseline(n) ==
    TaskOutput(Present(IF n <= 5 THEN PickText
                       ELSE IF n <= 10 THEN EditText
                       ELSE IF n = 11 THEN ChiefText
                       ELSE QAText),
               Absent)

\* outputs that deviate from it
Variants ==
    { TaskOutput(Absent, Absent),
      TaskOutput(Present(<<>>), Present(PickSixText)),
      TaskOutput(Present(WrappedFinalText), Present(ListText)),
      TaskOutput(Present(ListText), Absent),
      TaskOutput(Present(ProseText), Absent),
      TaskOutput(Present(BadArticleText), Absent),
      TaskOutput(Present(FalsyFinalText), Absent),
      TaskOutput(Present(NonListText), Absent),
      TaskOutput(Present(EditTwoText), Absent) }

EngineErrors == {"RuntimeError"}

\* the lists of n task outputs in which the positions in D deviate
TasksOutput(n, D, choice) ==
    [i \in 1..n |-> IF i \in D THEN choice[i] ELSE Baseline(i)]

(***************************************************************************)
(* One call of run_pipeline, step by step.                                 *)
(***************************************************************************)
Init ==
    /\ pc = "start"
    /\ artifacts = <<>> /\ merged = PyNone /\ exc = "" /\ file = PyNone
    /\ text = <<>> /\ data = PyNone /\ npc = "off"
    /\ results = PyNone /\ error = PyNone /\ active_menu = "Home" /\ running = FALSE
    /\ rpc = "off" /\ runs = 0 /\ calls = 0 /\ last_call = NoCall

\* lines 208-212: the engine call returns its task outputs, or raises
Kickoff ==
    /\ pc = "start"
    /\ \/ \E n \in 0..MaxOutputs :
            \E D \in {X \in SUBSET (1..n) : Cardinality(X) <= MaxVaried} :
              \E choice \in [D -> Variants] :
                /\ artifacts' = TasksOutput(n, D, choice)
                /\ pc' = "collect"
                /\ exc' = exc
       \/ \E e \in EngineErrors :
            /\ exc' = e
            /\ pc' = "raised"
            /\ artifacts' = artifacts
    /\ UNCHANGED <<merged, file, normVars, dashVars>>

\* lines 211-217
Collect ==
    /\ pc = "collect"
    /\ merged' = CollectSteps(artifacts)
    /\ pc' = "select"
    /\ UNCHANGED <<artifacts, exc, file, normVars, dashVars>>

\* lines 221-225
Select ==
    /\ pc = "select"
    /\ LET f == SelectFinal(merged) IN
       \/ /\ f.ok
          /\ merged' = DictSet(merged, "final", f.val)
          /\ pc' = "write"
          /\ exc' = exc
       \/ /\ ~f.ok
          /\ exc' = f.err
          /\ pc' = "raised"
          /\ merged' = merged
    /\ UNCHANGED <<artifacts, file, normVars, dashVars>>

\* the save with a slip: no try/except, a failed write leaves run_pipeline
WriteResult_Raises ==
    /\ pc = "write"
    /\ \/ /\ file' = merged
          /\ pc' = "returned"
          /\ exc' = exc
       \/ \E w \in WriteErrors :
            /\ exc' = w
            /\ pc' = "raised"
            /\ file' = file
    /\ UNCHANGED <<artifacts, merged, normVars, dashVars>>

\* lines 228-234: write the file, or record why it could not be; return
\* (file holds the mapping that was serialised; the JSON text itself is not
\* represented)
WriteResult ==
    /\ pc = "write"
    /\ \/ /\ file' = merged
          /\ merged' = AfterWrite(merged, "")
       \/ \E w \in WriteErrors :
            /\ merged' = AfterWrite(merged, w)
            /\ file' = file
    /\ pc' = "returned"
    /\ UNCHANGED <<artifacts, exc, normVars, dashVars>>

Next == Kickoff \/ Collect \/ Select \/ WriteResult

Spec == Init /\ [][Next]_vars

(***************************************************************************)
(* run_pipeline as one call: the engine's task outputs arts and the write  *)
(* outcome w give the value returned or the exception raised.              *)
(***************************************************************************)
run_pipeline(arts, w) ==
    LET m == CollectSteps(arts)
        f == SelectFinal(m)
    IN IF ~f.ok THEN f
       ELSE Ret(AfterWrite(DictSet(m, "final", f.val), w))

(***************************************************************************)
(* The dashboard session (main.py).                                        *)
(***************************************************************************)
\* f"{e}\n\n{traceback.format_exc()}"
ErrorText(e) == PyStr(e \o "\n\n" \o "Traceback (most recent call last): " \o e)

InitDash ==
    /\ results = PyNone /\ error = PyNone /\ active_menu = "Home" /\ running = FALSE
    /\ rpc = "idle" /\ runs = 0 /\ calls = 0 /\ last_call = NoCall
    /\ pc = "off" /\ artifacts = <<>> /\ merged = PyNone /\ exc = "" /\ file = PyNone
    /\ text = <<>> /\ data = PyNone /\ npc = "off"

\* the Run Agents button (line 91) starts run_agents: lines 72-73
\* run_agents with a slip: the error of the previous run is not cleared
ClickRun_KeepsError ==
    /\ rpc = "idle"
    /\ ~running
    /\ runs < MaxRuns
    /\ running' = TRUE
    /\ error' = error
    /\ runs' = runs + 1
    /\ rpc' = "try"
    /\ UNCHANGED <<results, active_menu, calls, last_call, file, pc, artifacts,
                   merged, exc, normVars>>

ClickRun ==
    /\ rpc = "idle"
    /\ ~running
    /\ runs < MaxRuns
    /\ running' = TRUE
    /\ error' = PyNone
    /\ runs' = runs + 1
    /\ rpc' = "try"
    /\ UNCHANGED <<results, active_menu, calls, last_call, file, pc, artifacts,
                   merged, exc, normVars>>

\* the deviating outputs drawn in the dashboard specification: an absent
\* text and a top-level list
DashVariants ==
    { TaskOutput(Absent, Absent),
      TaskOutput(Present(ListText), Absent) }

\* what one call of NewsPortalCrew().run_pipeline() can do: the engine
\* raises, or returns task outputs and the file write succeeds or fails
PipelineCalls ==
    {[r |-> Raise(e), written |-> FALSE] : e \in EngineErrors}
    \cup
    UNION { UNION { { [r |-> run_pipeline(TasksOutput(n, D, choice), w),
                       written |-> (w = "")] :
                      choice \in [D -> DashVariants], w \in {""} \cup WriteErrors } :
                    D \in {X \in SUBSET (1..n) : Cardinality(X) <= MaxVaried} } :
            n \in 0..MaxDashOutputs }

\* lines 74-82: the call, then the try body's assignments or the handler's
\* run_agents with a slip: the handler does not reset results
RunTry_KeepsResults ==
    /\ rpc = "try"
    /\ \E c \in PipelineCalls :
         /\ calls' = calls + 1
         /\ last_call' = c.r
         /\ \/ /\ c.r.ok
               /\ results' = c.r.val
               /\ active_menu' = "Home"
               /\ error' = error
               /\ file' = IF c.written THEN c.r.val ELSE file
            \/ /\ ~c.r.ok
               /\ error' = ErrorText(c.r.err)
               /\ results' = results
               /\ active_menu' = active_menu
               /\ file' = file
    /\ rpc' = "finally"
    /\ UNCHANGED <<running, runs, pc, artifacts, merged, exc, normVars>>

RunTry ==
    /\ rpc = "try"
    /\ \E c \in PipelineCalls :
         /\ calls' = calls + 1
         /\ last_call' = c.r
         /\ \/ /\ c.r.ok
               /\ results' = c.r.val
               /\ active_menu' = "Home"
               /\ error' = error
               /\ file' = IF c.written THEN c.r.val ELSE file
            \/ /\ ~c.r.ok
               /\ error' = ErrorText(c.r.err)
               /\ results' = PyNone
               /\ active_menu' = active_menu
               /\ file' = file
    /\ rpc' = "finally"
    /\ UNCHANGED <<running, runs, pc, artifacts, merged, exc, normVars>>

\* lines 83-86
RunFinally ==
    /\ rpc = "finally"
    /\ running' = FALSE
    /\ rpc' = "idle"
    /\ UNCHANGED <<results, error, active_menu, runs, calls, last_call, file,
                   pc, artifacts, merged, exc, normVars>>

\* lines 121-127: a section button, drawn only when there are results
SelectMenu ==
    /\ rpc = "idle"
    /\ ~running
    /\ Truthy(results)
    /\ \E s \in {"Home"} \cup {SUBTOPICS[i] : i \in 1..Len(SUBTOPICS)} :
         active_menu' = s
    /\ UNCHANGED <<results, error, running, rpc, runs, calls, last_call, file,
                   pc, artifacts, merged, exc, normVars>>

NextDash == ClickRun \/ RunTry \/ RunFinally \/ SelectMenu

SpecDash == InitDash /\ [][NextDash]_vars

(***************************************************************************)
(* The normalizer alone: ensure_json applied to one string.                *)
(***************************************************************************)
NormAlphabet == {"{", "}", "[", "]", Q, ":", ",", "1", "a"}

ShortTexts == UNION {[1..n -> NormAlphabet] : n \in 0..MaxLen}

InitNorm ==
    /\ text \in ShortTexts
    /\ data = PyNone
    /\ npc = "in"
    /\ pc = "off" /\ artifacts = <<>> /\ merged = PyNone /\ exc = "" /\ file = PyNone
    /\ results = PyNone /\ error = PyNone /\ active_menu = "Home" /\ running = FALSE
    /\ rpc = "off" /\ runs = 0 /\ calls = 0 /\ last_call = NoCall

Normalize ==
    /\ npc = "in"
    /\ data' = ensure_json(text)
    /\ npc' = "out"
    /\ UNCHANGED <<text, pipeVars, dashVars>>

NextNorm == Normalize

SpecNorm == InitNorm /\ [][NextNorm]_vars

(***************************************************************************)
(* Vocabulary of the properties.                                           *)
(***************************************************************************)
\* run_pipeline has built merged and chosen its "final"
Selected == pc \in {"write", "returned"}

\* the step record under key k of merged, {} when there is none
StepOf(k) == IF k \in DOMAIN merged.fields THEN merged.fields[k] ELSE PyDict(<<>>)

HasFinalField(r) == IsDict(r) /\ "final" \in DOMAIN r.fields
HasTruthyFinal(r) == HasFinalField(r) /\ Truthy(r.fields["final"])

\* neither late-stage record is a mapping with a truthy "final": line 224 is
\* reached
FallbackReached ==
    /\ merged # PyNone
    /\ IsDict(StepOf("step_12")) /\ ~HasTruthyFinal(StepOf("step_12"))
    /\ IsDict(StepOf("step_11")) /\ ~HasTruthyFinal(StepOf("step_11"))

\* a record the assembler is to treat as empty: missing, no mapping, or
\* without a list under the field
LacksList(r, field) ==
    ~IsDict(r) \/ field \notin DOMAIN r.fields \/ ~IsList(r.fields[field])

IsErrorRecord(v, s) ==
    /\ IsDict(v)
    /\ DOMAIN v.fields = {"error", "raw"}
    /\ v.fields["error"] = PyStr("non_json_output")
    /\ v.fields["raw"] = PyStr(Join(s))

\* s holds a "{" before a later "}" and the text between them, both
\* included, parses
HasValidSpan(s) ==
    /\ Find(s, "{") >= 0
    /\ RFind(s, "}") > Find(s, "{")
    /\ Loads(Slice(s, Find(s, "{"), RFind(s, "}") + 1)).ok

\* the entry of subtopic i in the "final" of merged
EntryOf(i) == merged.fields["final"].fields["per_subtopic"].fields[SUBTOPICS[i]]

\* a is b with its "summary" set to v
IsWithSummary(a, b, v) ==
    /\ IsDict(a)
    /\ DOMAIN a.fields = DOMAIN b.fields \cup {"summary"}
    /\ a.fields["summary"] = v
    /\ \A k \in DOMAIN b.fields \ {"summary"} : a.fields[k] = b.fields[k]

(***************************************************************************)
(* C1: whatever task outputs the engine returns, run_pipeline returns a    *)
(* mapping that has a non-null "final".  As stated: the only exception     *)
(* that leaves run_pipeline is the engine's own, and a returned mapping    *)
(* has a "final" that is not None.                                         *)
(***************************************************************************)
C1_AlwaysReturnsFinal ==
    /\ pc = "raised" => exc \in EngineErrors
    /\ pc = "returned" =>
         /\ "final" \in DOMAIN merged.fields
         /\ merged.fields["final"] # PyNone

(***************************************************************************)
(* C3: a failed file write does not raise; the mapping returned is the one *)
(* a successful write returns plus "file_write_error" = the message.       *)
(* Every step taken from the write position ends in "returned"; when the   *)
(* file was not written, merged gained exactly the error field.            *)
(***************************************************************************)
C3_WriteFailureRecorded ==
    [][pc = "write" =>
         /\ pc' = "returned"
         /\ exc' = exc
         /\ \/ /\ file' = merged
               /\ merged' = merged
            \/ /\ file' = file
               /\ \E w \in WriteErrors :
                    /\ DOMAIN merged'.fields =
                           DOMAIN merged.fields \cup {"file_write_error"}
                    /\ merged'.fields["file_write_error"] = PyStr(w)
                    /\ \A k \in DOMAIN merged.fields :
                           merged'.fields[k] = merged.fields[k]]_vars

C3_Witness ==
    /\ pc = "returned"
    /\ file = PyNone
    /\ "file_write_error" \in DOMAIN merged.fields
    /\ {"topic", "step_1", "final"} \subseteq DOMAIN merged.fields

(***************************************************************************)
(* C4: in the fallback assembler a subtopic whose pick or editor record is *)
(* missing, is no mapping (a top-level list or scalar), or lacks a list    *)
(* "articles" / "summaries" does not make the assembler fail and gets      *)
(* empty data.  As stated: when the fallback is reached, run_pipeline      *)
(* raises only over an article that is no mapping, never over a step       *)
(* record; a subtopic whose pick record is such a record has articles = [] *)
(* and best_article = None, and one whose editor record is such a record   *)
(* has no summary on any article.                                          *)
(***************************************************************************)
C4_ArticlesAreMappings(i) ==
    LET r == StepOf(pick_steps[i]) IN
    LacksList(r, "articles") \/
        \A j \in 1..Len(r.fields["articles"].items) :
            IsDict(r.fields["articles"].items[j])

C4_MalformedRecordGivesEmptyEntry ==
    /\ (pc = "raised" /\ exc \notin EngineErrors /\ FallbackReached) =>
           \E i \in 1..Len(SUBTOPICS) : ~C4_ArticlesAreMappings(i)
    /\ (Selected /\ FallbackReached) =>
         \A i \in 1..Len(SUBTOPICS) :
            /\ LacksList(StepOf(pick_steps[i]), "articles") =>
                  /\ EntryOf(i).fields["articles"] = PyList(<<>>)
                  /\ EntryOf(i).fields["best_article"] = PyNone
            /\ LacksList(StepOf(edit_steps[i]), "summaries") =>
                  \A j \in 1..Len(EntryOf(i).fields["articles"].items) :
                      EntryOf(i).fields["articles"].items[j].fields["summary"] = PyNone

(***************************************************************************)
(* C5: a string with no valid {...} span makes ensure_json return the      *)
(* error record with raw = the string.                                     *)
(***************************************************************************)
C5_NoSpanGivesErrorRecord ==
    (npc = "out" /\ ~HasValidSpan(text)) => IsErrorRecord(data, text)

\* C5 as amended: a string with no valid {...} span that is not JSON as a
\* whole either makes ensure_json return the error record with raw = the
\* string.
C5_NoSpanNoJsonGivesErrorRecord ==
    (npc = "out" /\ ~HasValidSpan(text) /\ ~Loads(text).ok) =>
        IsErrorRecord(data, text)

C5_Witness ==
    /\ npc = "out"
    /\ Find(text, "{") > 0
    /\ RFind(text, "}") > Find(text, "{")
    /\ ~HasValidSpan(text)
    /\ IsErrorRecord(data, text)

(***************************************************************************)
(* C6: with n task outputs merged has exactly the step keys step_1 ..      *)
(* step_n, and step_i is the record of the i-th output: its text is raw,   *)
(* else output, else ""; an empty text gives {"empty": true} and any other *)
(* text the normalizer's result.                                           *)
(***************************************************************************)
C6_TextOf(t) ==
    IF t.raw.present /\ t.raw.text # <<>> THEN t.raw.text
    ELSE IF t.output.present /\ t.output.text # <<>> THEN t.output.text
    ELSE <<>>

\* the record each task output of the engine model is to give
C6_Expected ==
    [t \in Variants \cup {Baseline(n) : n \in 1..MaxOutputs} |->
        IF C6_TextOf(t) = <<>> THEN PyDict([empty |-> PyBool(TRUE)])
        ELSE ensure_json(C6_TextOf(t))]

C6_StepsInEngineOrder ==
    merged # PyNone =>
        /\ DOMAIN merged.fields \ {"topic", "final", "file_write_error"} =
               {StepKey(i) : i \in 1..Len(artifacts)}
        /\ \A i \in 1..Len(artifacts) :
               merged.fields[StepKey(i)] = C6_Expected[artifacts[i]]

C6_Witness ==
    /\ pc = "returned"
    /\ Len(artifacts) >= 3
    /\ \E i \in 1..Len(artifacts) :
          /\ artifacts[i].raw.text # <<>>
          /\ artifacts[i].output.text # <<>>
          /\ artifacts[i].raw.text # artifacts[i].output.text
          /\ merged.fields[StepKey(i)] = ensure_json(artifacts[i].raw.text)

(***************************************************************************)
(* C7: whenever step_12 or step_11 contains a "final" field, the "final"   *)
(* of merged is that field, step_12's first, and the fallback is used only *)
(* when neither has one.                                                   *)
(***************************************************************************)
IsFallbackView(v) ==
    /\ IsDict(v)
    /\ DOMAIN v.fields = {"topic", "subtopics", "per_subtopic", "home"}

C7_FinalFieldIsUsed ==
    Selected =>
        /\ HasFinalField(StepOf("step_12")) =>
               merged.fields["final"] = StepOf("step_12").fields["final"]
        /\ (~HasFinalField(StepOf("step_12")) /\ HasFinalField(StepOf("step_11"))) =>
               merged.fields["final"] = StepOf("step_11").fields["final"]
        /\ IsFallbackView(merged.fields["final"]) =>
               (~HasFinalField(StepOf("step_12")) /\ ~HasFinalField(StepOf("step_11")))

\* C7 as amended: in the mapping run_pipeline returns, "final" is step_12's
\* "final" field when that is truthy, else step_11's when that is truthy,
\* and the fallback's reconstruction exactly when neither is.
C7_TruthyFinalFieldIsUsed ==
    Selected =>
        /\ HasTruthyFinal(StepOf("step_12")) =>
               merged.fields["final"] = StepOf("step_12").fields["final"]
        /\ (~HasTruthyFinal(StepOf("step_12")) /\ HasTruthyFinal(StepOf("step_11"))) =>
               merged.fields["final"] = StepOf("step_11").fields["final"]
        /\ IsFallbackView(merged.fields["final"]) <=>
               (~HasTruthyFinal(StepOf("step_12")) /\ ~HasTruthyFinal(StepOf("step_11")))

C7_Witness ==
    /\ pc = "returned"
    /\ HasTruthyFinal(StepOf("step_12"))
    /\ HasTruthyFinal(StepOf("step_11"))
    /\ StepOf("step_12").fields["final"] # StepOf("step_11").fields["final"]
    /\ merged.fields["final"] = StepOf("step_12").fields["final"]

(***************************************************************************)
(* C8: in the fallback, for subtopic i with pick step_i and editor         *)
(* step_(i+5), the j-th article of the entry is the pick record's j-th     *)
(* article with "summary" = the editor's j-th summary, or None when there  *)
(* is no editor record or it has fewer than j summaries; best_article is   *)
(* the first article of the list, None when the list is empty.             *)
(***************************************************************************)
C8_SummaryFor(i, j) ==
    LET edit == StepOf(StepKey(i + 5)) IN
    IF ~LacksList(edit, "summaries") /\ j <= Len(edit.fields["summaries"].items)
    THEN edit.fields["summaries"].items[j]
    ELSE PyNone

C8_ArticlesPairedWithSummaries ==
    (Selected /\ FallbackReached) =>
        \A i \in 1..Len(SUBTOPICS) :
            LET arts == EntryOf(i).fields["articles"].items
                pick == StepOf(StepKey(i))
            IN /\ \A j \in 1..Len(arts) :
                      IsWithSummary(arts[j], pick.fields["articles"].items[j],
                                    C8_SummaryFor(i, j))
               /\ EntryOf(i).fields["best_article"] =
                      IF arts = <<>> THEN PyNone ELSE arts[1]

C8_Witness ==
    /\ pc = "returned"
    /\ FallbackReached
    /\ \E i \in 1..Len(SUBTOPICS) :
          LET arts == EntryOf(i).fields["articles"].items IN
          /\ Len(arts) = 2
          /\ arts[1].fields["summary"] = PyStr("s1")
          /\ arts[2].fields["summary"] = PyNone
          /\ EntryOf(i).fields["best_article"] = arts[1]
    /\ \E i \in 1..Len(SUBTOPICS) :
          /\ StepKey(i + 5) \notin DOMAIN merged.fields
          /\ Len(EntryOf(i).fields["articles"].items) = 2

(***************************************************************************)
(* C9: in the fallback, home.best_articles holds, in subtopic order, one   *)
(* entry per subtopic that has a best article: that article tagged with    *)
(* "subtopic" = the subtopic's name; it has at most 5 entries; and         *)
(* home.main_editorial is None.                                            *)
(***************************************************************************)
C9_WithBest == {i \in 1..Len(SUBTOPICS) : EntryOf(i).fields["best_article"] # PyNone}

\* the k-th subtopic, in list order, that has a best article
C9_Nth(k) ==
    CHOOSE i \in C9_WithBest : Cardinality({x \in C9_WithBest : x < i}) = k - 1

C9_HomeBestArticles ==
    (Selected /\ FallbackReached) =>
        LET home == merged.fields["final"].fields["home"]
            best == home.fields["best_articles"].items
        IN /\ Len(best) = Cardinality(C9_WithBest)
           /\ Len(best) <= 5
           /\ \A k \in 1..Len(best) :
                  LET ba == EntryOf(C9_Nth(k)).fields["best_article"] IN
                  /\ DOMAIN best[k].fields = DOMAIN ba.fields \cup {"subtopic"}
                  /\ best[k].fields["subtopic"] = PyStr(SUBTOPICS[C9_Nth(k)])
                  /\ \A f \in DOMAIN ba.fields \ {"subtopic"} :
                         best[k].fields[f] = ba.fields[f]
           /\ home.fields["main_editorial"] = PyNone

C9_Witness ==
    /\ pc = "returned"
    /\ FallbackReached
    /\ C9_WithBest = {1, 3, 4, 5}
    /\ LET best == merged.fields["final"].fields["home"].fields["best_articles"].items
       IN /\ Len(best) = 4
          /\ best[2].fields["subtopic"] = PyStr(SUBTOPICS[3])
          /\ best[2].fields["title"] = PyStr("A")

(***************************************************************************)
(* C2: when the pipeline call raises during Run, the dashboard stores the  *)
(* message and trace in error and leaves the results of the previous run   *)
(* untouched.                                                              *)
(***************************************************************************)
C2_FailedRunKeepsResults ==
    [][(rpc = "try" /\ ~last_call'.ok) =>
          /\ error' = ErrorText(last_call'.err)
          /\ results' = results]_vars

\* C2 as amended: when the pipeline call raises during Run, the dashboard
\* stores the message and trace in error and sets results to None, dropping
\* the results of the previous run.
C2_FailedRunClearsResults ==
    [][(rpc = "try" /\ ~last_call'.ok) =>
          /\ rpc' = "finally"
          /\ error' = ErrorText(last_call'.err)
          /\ results' = PyNone]_vars

\* a failed run has ended in a session whose earlier run had left its file
C2_Witness ==
    /\ rpc = "finally"
    /\ runs = 2
    /\ file # PyNone
    /\ ~last_call.ok
    /\ error # PyNone
    /\ results = PyNone

(***************************************************************************)
(* C10: once a run_agents callback has completed, running is False,        *)
(* results and error are not both set (a successful run leaves error None  *)
(* and results = the mapping it returned, a failed one leaves error set    *)
(* and results None), and each Run has invoked the pipeline exactly once.  *)
(***************************************************************************)
C10_SessionAfterRun ==
    /\ calls <= runs
    /\ runs <= calls + 1
    /\ (rpc = "idle" /\ runs > 0) =>
         /\ running = FALSE
         /\ calls = runs
         /\ ~(results # PyNone /\ error # PyNone)
         /\ last_call.ok => (error = PyNone /\ results = last_call.val)
         /\ ~last_call.ok => (error # PyNone /\ results = PyNone)

C10_Witness ==
    /\ rpc = "idle"
    /\ runs = 2
    /\ calls = 2
    /\ last_call.ok
    /\ error = PyNone
    /\ results = last_call.val
    /\ "file_write_error" \in DOMAIN results.fields

====
